---- MODULE Spec2Model ----
(***************************************************************************)
(* LancePay Soroban contracts: DisputeResolutionCourt, MultisigGovernance, *)
(* LiquidityRebalancer and TrustlineHandler, modelled as the host sees     *)
(* them.                                                                   *)
(*                                                                         *)
(* No contract writes contract storage (every storage call in the     *)
(* source is commented out), so what a call leaves behind is exactly what  *)
(* the host commits for it: the events it published and the invocation     *)
(* itself with its return value.  A call that panics (a failed             *)
(* require_auth, "Invalid split ratio") is rolled back by the host and     *)
(* leaves nothing but its failure, reported to the caller.                 *)
(***************************************************************************)
EXTENDS Integers, Sequences, FiniteSets, TLC

(* ----------------------------- bounds ---------------------------------- *)

\* Number of committed (successful) invocations explored.
MaxCalls == 3

(* ----------------------------- inputs ---------------------------------- *)

Address == {"A", "B", "C", "D"}

\* escrow_id / dispute_id strings
CaseIds == {"case-7", "case-8"}

\* split_ratio: u32; 150 is the out-of-range input
SplitRatios == {40, 60, 150}

EvidenceHashes == {"hash1", "hash2"}

\* (contract_owner, additional_signer_1, additional_signer_2)
SignerTriples == {<<"A", "B", "C">>, <<"D", "A", "C">>, <<"A", "A", "A">>}

Proposers == {"A"}
Amounts == {500}
CoSigners == {"A", "B"}
TxHashes == {11}

\* check_and_rebalance(funding_wallet, threshold, target): i128 amounts in stroops
Wallets == {"A", "D"}
Thresholds == {100000000, 150000000, 200000000}
Targets == {100000000, 150000000, 250000000}

\* ensure_trustline(user, asset_code, asset_issuer)
Users == {"A", "B"}
AssetCodes == {"USDC", "EURC"}
AssetIssuers == {"D"}

Disputers == {"C"}
Submitters == {"C", "D"}
Arbiters == {"A", "B"}

(* ----------------------------- state ----------------------------------- *)

VARIABLES
    events,       \* env.events(): the events published by committed calls, in order
    invocations,  \* the committed contract invocations, in order, with return values
    result,       \* what the latest call reported to its caller
    storage       \* env.storage(): the contract data entries, key |-> value

vars == <<events, invocations, result, storage>>

Init ==
    /\ events = <<>>
    /\ invocations = <<>>
    /\ result = [status |-> "none"]
    /\ storage = <<>>

(* ------------------------- host call semantics ------------------------- *)

\* A panic aborts the invocation: the host discards its events and commits nothing.
Panic(msg) ==
    /\ result' = [status |-> "panic", msg |-> msg]
    /\ UNCHANGED <<events, invocations, storage>>

\* A call that returns commits its published events and its return value.  No
\* entry point writes a data entry (each storage().set in the source is commented
\* out), so the storage is committed as it was.
Commit(call, published, ret) ==
    /\ Len(invocations) < MaxCalls
    /\ invocations' = Append(invocations, call)
    /\ events' = events \o published
    /\ result' = [status |-> "ok", ret |-> ret]
    /\ UNCHANGED storage

\* events().publish((topic, id), data)
Event(topic, id, data) == [topic |-> topic, id |-> id, data |-> data]

(* ----------------------- DisputeResolutionCourt ------------------------ *)

initiate_dispute(escrow_id, disputer, authed) ==
    IF ~authed THEN Panic("Unauthorized")
    ELSE Commit([fn |-> "initiate_dispute", escrow_id |-> escrow_id,
                 disputer |-> disputer, ret |-> TRUE],
                <<Event("dispute_started", escrow_id, disputer)>>,
                TRUE)

submit_evidence(dispute_id, evidence_hash, submitter, authed) ==
    IF ~authed THEN Panic("Unauthorized")
    ELSE Commit([fn |-> "submit_evidence", dispute_id |-> dispute_id,
                 evidence_hash |-> evidence_hash, submitter |-> submitter],
                <<Event("evidence_submitted", dispute_id, evidence_hash)>>,
                "unit")

\* adjudicate without its range check on split_ratio.
adjudicate_NoRatioCheck(dispute_id, split_ratio, arbiter, authed) ==
    IF ~authed THEN Panic("Unauthorized")
    ELSE Commit([fn |-> "adjudicate", dispute_id |-> dispute_id,
                 split_ratio |-> split_ratio, arbiter |-> arbiter],
                <<Event("dispute_resolved", dispute_id, split_ratio)>>,
                "unit")

\* adjudicate publishing its resolution under a fixed topic id instead of the
\* dispute_id it was called with.
adjudicate_FixedTopicId(dispute_id, split_ratio, arbiter, authed) ==
    IF ~authed THEN Panic("Unauthorized")
    ELSE IF split_ratio > 100 THEN Panic("Invalid split ratio")
    ELSE Commit([fn |-> "adjudicate", dispute_id |-> dispute_id,
                 split_ratio |-> split_ratio, arbiter |-> arbiter],
                <<Event("dispute_resolved", "case-7", split_ratio)>>,
                "unit")

adjudicate(dispute_id, split_ratio, arbiter, authed) ==
    IF ~authed THEN Panic("Unauthorized")
    ELSE IF split_ratio > 100 THEN Panic("Invalid split ratio")
    ELSE Commit([fn |-> "adjudicate", dispute_id |-> dispute_id,
                 split_ratio |-> split_ratio, arbiter |-> arbiter],
                <<Event("dispute_resolved", dispute_id, split_ratio)>>,
                "unit")

(* -------------------------- MultisigGovernance ------------------------- *)

configure_multisig(contract_owner, additional_signer_1, additional_signer_2, authed) ==
    IF ~authed THEN Panic("Unauthorized")
    ELSE Commit([fn |-> "configure_multisig", contract_owner |-> contract_owner,
                 additional_signer_1 |-> additional_signer_1,
                 additional_signer_2 |-> additional_signer_2],
                <<>>,
                "unit")

propose_sensitive_tx(proposer, amount, authed) ==
    IF ~authed THEN Panic("Unauthorized")
    ELSE Commit([fn |-> "propose_sensitive_tx", proposer |-> proposer,
                 amount |-> amount, ret |-> FALSE],
                <<>>,
                FALSE)

execute_with_second_sig(co_signer, tx_hash, authed) ==
    IF ~authed THEN Panic("Unauthorized")
    ELSE Commit([fn |-> "execute_with_second_sig", co_signer |-> co_signer,
                 tx_hash |-> tx_hash, ret |-> TRUE],
                <<>>,
                TRUE)

(* -------------------------- LiquidityRebalancer ------------------------ *)

\* let current_balance = 15_0000000;  the mocked balance of every wallet
CurrentBalance == 150000000

\* The events execute_swap publishes once wallet.require_auth() has passed.
execute_swap(wallet, amount_xlm) ==
    <<Event("rebalance_executed", wallet, amount_xlm)>>

\* The amounts drawn are far from the i128 bounds, so target - current_balance is
\* exact.  The authorization tested on the swapping path is execute_swap's
\* wallet.require_auth(); the path that returns false asks for none.
check_and_rebalance(funding_wallet, threshold, target, authed) ==
    IF CurrentBalance >= threshold
    THEN Commit([fn |-> "check_and_rebalance", funding_wallet |-> funding_wallet,
                 threshold |-> threshold, target |-> target, ret |-> FALSE],
                <<>>,
                FALSE)
    ELSE LET needed == target - CurrentBalance
         IN IF ~authed THEN Panic("Unauthorized")
            ELSE Commit([fn |-> "check_and_rebalance", funding_wallet |-> funding_wallet,
                         threshold |-> threshold, target |-> target, ret |-> TRUE],
                        execute_swap(funding_wallet, needed),
                        TRUE)

(* ---------------------------- TrustlineHandler ------------------------- *)

ensure_trustline(user, asset_code, asset_issuer, authed) ==
    IF ~authed THEN Panic("Unauthorized")
    ELSE Commit([fn |-> "ensure_trustline", user |-> user,
                 asset_code |-> asset_code, asset_issuer |-> asset_issuer,
                 ret |-> TRUE],
                <<Event("trustline_configured", user, asset_code)>>,
                TRUE)

\* Calls ensure_trustline(user, "USDC", user) and drops its return value; the
\* require_auth it runs into is ensure_trustline's.
setup_usdc_trustline(user, authed) ==
    IF ~authed THEN Panic("Unauthorized")
    ELSE Commit([fn |-> "setup_usdc_trustline", user |-> user],
                <<Event("trustline_configured", user, "USDC")>>,
                "unit")

(* ------------- the documented SetOptions configuration ----------------- *)
(* configure_multisig stores nothing; its body documents the scheme it     *)
(* stands for: each of the three keys weighs 1, thresholds Low=0, Med=2,   *)
(* High=2.  The definitions below read that scheme off the committed       *)
(* configure_multisig invocations, so that "weight" and "threshold" mean   *)
(* for every call what the source says they are.                           *)

Signer1Weight == 1
Signer2Weight == 1
MasterWeight == 1
LowThreshold == 0
MedThreshold == 2
HighThreshold == 2

\* execute_with_second_sig: "1 existing + 1 new = 2"
ExistingWeight == 1
NewWeight == 1

ConfigIndices(inv) == {i \in DOMAIN inv : inv[i].fn = "configure_multisig"}

Configured(inv) == ConfigIndices(inv) # {}

\* The configuration in force: the latest committed configure_multisig.
CurrentConfig(inv) ==
    LET last == CHOOSE i \in ConfigIndices(inv) : \A j \in ConfigIndices(inv) : j <= i
    IN inv[last]

\* Weight of a key under the configuration in force; 0 for a key that is not a signer.
weight_of(inv, signer) ==
    IF ~Configured(inv) THEN 0
    ELSE LET cfg == CurrentConfig(inv)
         IN IF signer = cfg.contract_owner THEN MasterWeight
            ELSE IF signer = cfg.additional_signer_1 THEN Signer1Weight
            ELSE IF signer = cfg.additional_signer_2 THEN Signer2Weight
            ELSE 0

RECURSIVE SumWeights(_, _)
SumWeights(inv, signers) ==
    IF signers = {} THEN 0
    ELSE LET s == CHOOSE x \in signers : TRUE
         IN weight_of(inv, s) + SumWeights(inv, signers \ {s})

(* ------------------- reading the committed history --------------------- *)

IsAdjudicate(call, c) == call.fn = "adjudicate" /\ call.dispute_id = c

IsExecute(call, h) == call.fn = "execute_with_second_sig" /\ call.tx_hash = h

Prefix(inv, k) == SubSeq(inv, 1, k)

\* The distinct arbiters that have signed "adjudicate case c".
ArbitersOf(inv, c) == {inv[i].arbiter : i \in {j \in DOMAIN inv : IsAdjudicate(inv[j], c)}}

\* The distinct keys that have signed transaction h: every proposer (a proposal
\* names no transaction, so it is counted towards each) and h's co-signers.
SignersOf(inv, h) ==
    {inv[i].proposer : i \in {j \in DOMAIN inv : inv[j].fn = "propose_sensitive_tx"}}
    \cup {inv[i].co_signer : i \in {j \in DOMAIN inv : IsExecute(inv[j], h)}}

\* Accumulated weight of the distinct signers of an action.
AdjudicationWeight(inv, c) == SumWeights(inv, ArbitersOf(inv, c))

TxWeight(inv, h) == SumWeights(inv, SignersOf(inv, h))

ResolvedEvents(evs, c) ==
    SelectSeq(evs, LAMBDA e : e.topic = "dispute_resolved" /\ e.id = c)

EvidenceEvents(evs, c) ==
    SelectSeq(evs, LAMBDA e : e.topic = "evidence_submitted" /\ e.id = c)

Resolved(evs, c) == Len(ResolvedEvents(evs, c)) > 0

\* The evidence hashes held in storage for a dispute: the values under the keys
\* (dispute_id, submitter) that submit_evidence's storage write names.
StoredEvidence(st, c) == {st[k] : k \in {x \in DOMAIN st : x[1] = c}}

CaseEvents(evs, c) == SelectSeq(evs, LAMBDA e : e.id = c)

\* The case was opened by initiate_dispute before anything else happened on it.
Opened(evs, c) ==
    /\ CaseEvents(evs, c) # <<>>
    /\ CaseEvents(evs, c)[1].topic = "dispute_started"

StartedEvents(evs, c) ==
    SelectSeq(evs, LAMBDA e : e.topic = "dispute_started" /\ e.id = c)

\* The case an invocation addresses ("none" for the MultisigGovernance calls).
CaseOf(call) ==
    IF call.fn = "initiate_dispute" THEN call.escrow_id
    ELSE IF call.fn \in {"submit_evidence", "adjudicate"} THEN call.dispute_id
    ELSE "none"

\* The committed invocations on a case, in call order.
CaseCalls(inv, c) == SelectSeq(inv, LAMBDA call : CaseOf(call) = c)

\* The event a DisputeResolutionCourt invocation publishes.
EventOf(call) ==
    IF call.fn = "initiate_dispute"
    THEN Event("dispute_started", call.escrow_id, call.disputer)
    ELSE IF call.fn = "submit_evidence"
    THEN Event("evidence_submitted", call.dispute_id, call.evidence_hash)
    ELSE Event("dispute_resolved", call.dispute_id, call.split_ratio)

\* Whether a committed invocation published an event: the three court entry
\* points and the two trustline ones always do, check_and_rebalance does on the
\* path that reaches execute_swap, the MultisigGovernance ones never do.
Publishes(call) ==
    \/ call.fn \in {"initiate_dispute", "submit_evidence", "adjudicate"}
    \/ call.fn \in {"ensure_trustline", "setup_usdc_trustline"}
    \/ call.fn = "check_and_rebalance" /\ ~(CurrentBalance >= call.threshold)

\* The distinct keys of the configuration in force.
ConfigKeys(inv) ==
    LET cfg == CurrentConfig(inv)
    IN {cfg.contract_owner, cfg.additional_signer_1, cfg.additional_signer_2}

ExecutedCalls(inv, h) == {i \in DOMAIN inv : IsExecute(inv[i], h) /\ inv[i].ret = TRUE}

\* This step committed a new invocation; NewCall is that invocation.
Committed == Len(invocations') = Len(invocations) + 1

NewCall == invocations'[Len(invocations')]

(* --------------------------- specification ----------------------------- *)

InitiateDispute ==
    \E escrow_id \in CaseIds, disputer \in Disputers, authed \in BOOLEAN :
        initiate_dispute(escrow_id, disputer, authed)

SubmitEvidence ==
    \E dispute_id \in CaseIds, evidence_hash \in EvidenceHashes,
       submitter \in Submitters, authed \in BOOLEAN :
        submit_evidence(dispute_id, evidence_hash, submitter, authed)

Adjudicate ==
    \E dispute_id \in CaseIds, split_ratio \in SplitRatios,
       arbiter \in Arbiters, authed \in BOOLEAN :
        adjudicate(dispute_id, split_ratio, arbiter, authed)

ConfigureMultisig ==
    \E t \in SignerTriples, authed \in BOOLEAN :
        configure_multisig(t[1], t[2], t[3], authed)

ProposeSensitiveTx ==
    \E proposer \in Proposers, amount \in Amounts, authed \in BOOLEAN :
        propose_sensitive_tx(proposer, amount, authed)

ExecuteWithSecondSig ==
    \E co_signer \in CoSigners, tx_hash \in TxHashes, authed \in BOOLEAN :
        execute_with_second_sig(co_signer, tx_hash, authed)

Next ==
    \/ InitiateDispute
    \/ SubmitEvidence
    \/ Adjudicate
    \/ ConfigureMultisig
    \/ ProposeSensitiveTx
    \/ ExecuteWithSecondSig

Spec == Init /\ [][Next]_vars

CheckAndRebalance ==
    \E funding_wallet \in Wallets, threshold \in Thresholds,
       target \in Targets, authed \in BOOLEAN :
        check_and_rebalance(funding_wallet, threshold, target, authed)

NextRebalancer == CheckAndRebalance

\* LiquidityRebalancer is a contract of its own.
SpecRebalancer == Init /\ [][NextRebalancer]_vars

EnsureTrustline ==
    \E user \in Users, asset_code \in AssetCodes,
       asset_issuer \in AssetIssuers, authed \in BOOLEAN :
        ensure_trustline(user, asset_code, asset_issuer, authed)

SetupUsdcTrustline ==
    \E user \in Users, authed \in BOOLEAN :
        setup_usdc_trustline(user, authed)

NextTrustline ==
    \/ EnsureTrustline
    \/ SetupUsdcTrustline

\* TrustlineHandler is a contract of its own.
SpecTrustline == Init /\ [][NextTrustline]_vars

(* ------------------------------ claims --------------------------------- *)

\* C1: for every action the quorum effect fires exactly once: at most one call on
\* a transaction hash ever reports "executed", and at most one adjudicate call on
\* a case ever issues the dispute-resolved notification.
QuorumFiresExactlyOnce ==
    /\ \A h \in TxHashes : Cardinality(ExecutedCalls(invocations, h)) <= 1
    /\ \A c \in CaseIds : Opened(events, c) => Len(ResolvedEvents(events, c)) <= 1

\* C2: an adjudicate call that leaves the accumulated weight of its case below the
\* High threshold issues no notification (the dispute stays unresolved), and a
\* proposing signature reports "not executed" and publishes nothing.
BelowThresholdIsPending ==
    [][ /\ \A c \in CaseIds :
              ( /\ Configured(invocations)
                /\ Opened(events, c)
                /\ Committed
                /\ IsAdjudicate(NewCall, c)
                /\ AdjudicationWeight(invocations', c) < HighThreshold )
              => events' = events
        /\ (Committed /\ NewCall.fn = "propose_sensitive_tx")
              => (NewCall.ret = FALSE /\ events' = events)
      ]_vars

\* C3: once an action is executed, no later adjudicate call on that case and no
\* later co-signature on that transaction succeeds (each fails, committing nothing).
NoCallSucceedsAfterExecuted ==
    [][ /\ \A c \in CaseIds :
              (Opened(events, c) /\ Resolved(events, c))
              => ~(Committed /\ IsAdjudicate(NewCall, c))
        /\ \A h \in TxHashes :
              ExecutedCalls(invocations, h) # {} => ~(Committed /\ IsExecute(NewCall, h))
      ]_vars

\* C4: the split ratio recorded for a resolved case stays the first one committed:
\* every resolution recorded for the case carries the ratio of the first.
FirstSplitRatioStands ==
    \A c \in CaseIds :
        LET r == ResolvedEvents(events, c)
        IN Opened(events, c) => \A i \in DOMAIN r : r[i].data = r[1].data

\* C5: a case is resolved by the adjudicate call whose signature makes the
\* accumulated weight cross the High threshold, and with the ratio of that call:
\* the step that resolves a case takes the weight from below High to High or
\* more (so the first call of a weight-1 signer leaves the case unresolved).
ResolvedByCrossingCall ==
    [][ \A c \in CaseIds :
            ( /\ Configured(invocations)
              /\ Opened(events, c)
              /\ ~Resolved(events, c)
              /\ Resolved(events', c) )
            => /\ Committed
               /\ IsAdjudicate(NewCall, c)
               /\ AdjudicationWeight(invocations, c) < HighThreshold
               /\ AdjudicationWeight(invocations', c) >= HighThreshold
               /\ ResolvedEvents(events', c)[1].data = NewCall.split_ratio
      ]_vars

\* C6: an authorized adjudicate call with split_ratio > 100 fails with
\* "Invalid split ratio" and leaves the events and the committed invocations
\* unchanged; no committed adjudication and no dispute-resolved notification
\* ever carries a ratio above 100.
InvalidRatioRejected ==
    /\ [](\A i \in DOMAIN events :
             events[i].topic = "dispute_resolved" => events[i].data <= 100)
    /\ [](\A i \in DOMAIN invocations :
             invocations[i].fn = "adjudicate" => invocations[i].split_ratio <= 100)
    /\ [][ \A c \in CaseIds, r \in SplitRatios, a \in Arbiters :
              (r > 100 /\ adjudicate(c, r, a, TRUE)) =>
                  /\ result' = [status |-> "panic", msg |-> "Invalid split ratio"]
                  /\ events' = events
                  /\ invocations' = invocations
         ]_vars

\* C6 witness: an out-of-range adjudication has just been rejected while a case
\* already carries the signature of a configured signer, so that a further
\* signature would have crossed the threshold.
InvalidRatioRejectedWitness ==
    /\ result = [status |-> "panic", msg |-> "Invalid split ratio"]
    /\ Configured(invocations)
    /\ \E c \in CaseIds :
          /\ Opened(events, c)
          /\ AdjudicationWeight(invocations, c) = HighThreshold - 1

\* C7: a repeat signature is a no-op: a call by a key that has already signed the
\* action neither issues a dispute-resolved notification nor reports "executed".
RepeatSignatureIsNoOp ==
    [][ /\ \A c \in CaseIds :
              ( /\ Opened(events, c)
                /\ Committed
                /\ IsAdjudicate(NewCall, c)
                /\ NewCall.arbiter \in ArbitersOf(invocations, c) )
              => events' = events
        /\ \A h \in TxHashes :
              ( /\ Committed
                /\ IsExecute(NewCall, h)
                /\ NewCall.co_signer \in SignersOf(invocations, h) )
              => NewCall.ret = FALSE
      ]_vars

\* C8: the weight accumulated on a transaction while it is pending is the sum of
\* the weights of the distinct keys that signed it: the weight the first
\* executing call credits (existing + new) equals that sum.
AccumulatedWeightIsSum ==
    \A h \in TxHashes : \A k \in ExecutedCalls(invocations, h) :
        ( /\ Configured(Prefix(invocations, k))
          /\ \A j \in ExecutedCalls(invocations, h) : k <= j )
        => ExistingWeight + NewWeight = TxWeight(Prefix(invocations, k), h)

\* C9: a key that is not a signer of the configuration in force weighs 0: its
\* adjudicate call never resolves a case (no dispute-resolved notification), and
\* its co-signature never makes a transaction report "executed".
NonMembersNeverReachQuorum ==
    [][ /\ \A c \in CaseIds :
              ( /\ Configured(invocations)
                /\ Opened(events, c)
                /\ Committed
                /\ IsAdjudicate(NewCall, c)
                /\ weight_of(invocations, NewCall.arbiter) = 0 )
              => events' = events
        /\ \A h \in TxHashes :
              ( /\ Configured(invocations)
                /\ Committed
                /\ IsExecute(NewCall, h)
                /\ weight_of(invocations, NewCall.co_signer) = 0 )
              => NewCall.ret = FALSE
      ]_vars

\* C10: Resolved is terminal: once a case is resolved no submit_evidence call on it
\* succeeds and no evidence-submitted notification is issued for it.
ResolvedIsTerminal ==
    [][ \A c \in CaseIds :
            (Opened(events, c) /\ Resolved(events, c)) =>
                /\ ~(Committed /\ NewCall.fn = "submit_evidence" /\ NewCall.dispute_id = c)
                /\ EvidenceEvents(events', c) = EvidenceEvents(events, c)
      ]_vars

\* C11: initiate_dispute on a case that already exists fails (DuplicateCase): it
\* commits nothing and emits no second dispute-opened notification, so a case
\* never carries more than one dispute_started event.
DuplicateCaseRejected ==
    [][ \A c \in CaseIds :
            Len(StartedEvents(events, c)) > 0 =>
                /\ ~(Committed /\ NewCall.fn = "initiate_dispute" /\ NewCall.escrow_id = c)
                /\ StartedEvents(events', c) = StartedEvents(events, c)
      ]_vars

\* C12: every configuration in force satisfies low <= med <= high <= sum of the
\* weights of its signers (a configuration that cannot reach High is rejected).
StoredScopeReachable ==
    Configured(invocations) =>
        /\ LowThreshold <= MedThreshold
        /\ MedThreshold <= HighThreshold
        /\ HighThreshold <= SumWeights(invocations, ConfigKeys(invocations))

\* C13: a configuration in force is replaced only by its own owner: no
\* configure_multisig call by another identity is committed.
OnlyOwnerReconfigures ==
    [][ ( /\ Configured(invocations)
          /\ Committed
          /\ NewCall.fn = "configure_multisig" )
        => NewCall.contract_owner = CurrentConfig(invocations).contract_owner
      ]_vars

\* C14: evidence order is preserved: reading a dispute back yields the content
\* references of its successful submit_evidence calls, and stored entries are
\* never removed.  For that, each committed submit_evidence on an opened case has
\* to leave its content reference among the entries stored for the case, and no
\* step may take a stored entry away.
EvidenceOrderPreserved ==
    [][ \A c \in CaseIds :
            /\ ( /\ Opened(events, c)
                 /\ Committed
                 /\ NewCall.fn = "submit_evidence"
                 /\ NewCall.dispute_id = c )
               => NewCall.evidence_hash \in StoredEvidence(storage', c)
            /\ StoredEvidence(storage, c) \subseteq StoredEvidence(storage', c)
      ]_vars

\* C15: the dispute-resolved notification (the payout instruction) is issued only
\* by the call in which the case becomes resolved: a step that issues it starts
\* from an unresolved case and leaves exactly one such notification, so a case
\* never sees more than one payout.
PayoutOnlyOnFinalize ==
    [][ \A c \in CaseIds :
            ( /\ Opened(events, c)
              /\ Len(ResolvedEvents(events', c)) > Len(ResolvedEvents(events, c)) )
            => /\ ~Resolved(events, c)
               /\ Len(ResolvedEvents(events', c)) = 1
      ]_vars

\* C16: no partial success: a call that reports a failure leaves the events and
\* the stored records unchanged, and a court call that returns applies its whole
\* transition: the notification it publishes comes with the change of the stored
\* record it announces.
NoPartialSuccess ==
    [][ /\ result'.status = "panic" =>
              (events' = events /\ storage' = storage)
        /\ (Committed /\ CaseOf(NewCall) # "none" /\ Publishes(NewCall))
              => storage' # storage
      ]_vars

\* C17: an opened dispute only moves Active -> EvidenceOpen and EvidenceOpen ->
\* EvidenceOpen on evidence, and Active or EvidenceOpen -> Resolved on
\* adjudication.  The code keeps no dispute state, so the moves are read on what
\* it does publish: on an opened case, an evidence-submitted or dispute-resolved
\* notification only ever follows the dispute-opened notification or an
\* evidence-submitted one, never a dispute-resolved one.
AllowedTransitions ==
    { <<"dispute_started", "evidence_submitted">>,
      <<"evidence_submitted", "evidence_submitted">>,
      <<"dispute_started", "dispute_resolved">>,
      <<"evidence_submitted", "dispute_resolved">> }

OnlyAllowedTransitions ==
    [][ \A c \in CaseIds :
            LET before == CaseEvents(events, c)
                after == CaseEvents(events', c)
            IN ( /\ Opened(events, c)
                 /\ after # before
                 /\ after[Len(after)].topic # "dispute_started" )
               => <<before[Len(before)].topic, after[Len(after)].topic>>
                      \in AllowedTransitions
      ]_vars

\* C18: operations on a case that was never initiated change nothing: every
\* evidence-submitted or dispute-resolved notification of a case is preceded by
\* the dispute-opened notification of that case.
NotificationsFollowOpening ==
    \A c \in CaseIds :
        \A i \in DOMAIN events :
            (events[i].id = c /\ events[i].topic # "dispute_started")
            => \E j \in 1..(i - 1) :
                   events[j].id = c /\ events[j].topic = "dispute_started"

\* C19: cases are independent: a call on one case (or on no case) leaves the events
\* of every other case unchanged, and the events of a case are determined by the
\* calls made on that case alone, however they are interleaved with other calls.
CasesIndependent ==
    /\ [](\A c \in CaseIds :
            LET calls == CaseCalls(invocations, c)
            IN CaseEvents(events, c) = [i \in 1..Len(calls) |-> EventOf(calls[i])])
    /\ [][ \A c \in CaseIds :
              (Committed /\ CaseOf(NewCall) # c)
              => CaseEvents(events', c) = CaseEvents(events, c) ]_vars

\* C19 witness: calls on two cases have been interleaved.
CasesIndependentWitness ==
    /\ Len(events) = 3
    /\ events[1].id = "case-7"
    /\ events[2].id = "case-8"
    /\ events[3].id = "case-7"
    /\ events[3].topic = "dispute_resolved"

\* C20: check_and_rebalance returns false and publishes nothing when the balance
\* is at or above the threshold; otherwise it publishes exactly one
\* rebalance_executed for target - balance, a positive amount, and returns true.
RebalanceTopsUp ==
    [][ (Committed /\ NewCall.fn = "check_and_rebalance") =>
            IF CurrentBalance >= NewCall.threshold
            THEN NewCall.ret = FALSE /\ events' = events
            ELSE /\ NewCall.ret = TRUE
                 /\ events' = Append(events,
                                     Event("rebalance_executed", NewCall.funding_wallet,
                                           NewCall.target - CurrentBalance))
                 /\ NewCall.target - CurrentBalance > 0
      ]_vars

====
